---- MODULE Spec2Model ----
(***************************************************************************)
(* The pipeline runner (package pipeline): one call of ExecuteRun on one   *)
(* parsed DAG, directly or by ExecuteAndInsertFinishedRun, the scheduler   *)
(* goroutine it starts, the per-task worker goroutines, and the runner's   *)
(* service lifecycle (Start, Close, the reaper loop and its worker).       *)
(*                                                                         *)
(* The runner is modelled from the source.  The scheduler (newScheduler,   *)
(* scheduler.Run), TaskRunResults.FinalResult, utils.CombinedContext,      *)
(* utils.StartStopOnce and utils.SleeperTask are used by the source but    *)
(* defined elsewhere in the repository; they are modelled from the design  *)
(* document (sections 3, 4.1, 4.3, 4.4, 4.5).                              *)
(*                                                                         *)
(* Steps are atomic between blocking points (channel operations).  Both    *)
(* channels are rendezvous channels: a send and its receive are one step.  *)
(***************************************************************************)
EXTENDS Integers, Sequences, FiniteSets, TLC

\* ------------------------------------------------------------------ bounds

\* Largest number of tasks of a pipeline whose tasks declare no timeout.
MaxTasks == 3

\* Largest number of tasks of a pipeline whose tasks may declare timeouts and
\* whose spec may declare a MaxTaskDuration.
MaxTimedTasks == 1

\* Largest number of tasks of a pipeline run while the service is started and
\* stopped (ServiceSpec).
MaxServiceTasks == 1

\* Largest number of calls of Start, and of Close.
MaxCalls == 2

\* ------------------------------------------------------- program constants

\* numPanicRetries of ExecuteRun.
numPanicRetries == 5

\* The values Task.TaskTimeout() may return, as [set, d]: not set, or one of
\* two durations.
TimeoutChoices ==
    {[set |-> FALSE, d |-> 0], [set |-> TRUE, d |-> 1], [set |-> TRUE, d |-> 3]}

\* The values of spec.MaxTaskDuration: not set (0) or a duration strictly
\* between the two a task may declare.
MaxTaskDurations == {0, 2}

\* The nil error, and the errors a Result may carry.
NoError == "nil"
TaskError == "task error"
PanicError == "panicError"
ErrRunPanicked == "pipeline run panicked"
ParseError == "parse error"

\* ------------------------------------------------------------------- state

VARIABLES
    \* inputs of the run
    dag,            \* the parsed pipeline: [n, inputs, timeout]; inputs[t] = t's predecessors
                    \* in declared order, timeout[t] = what t.TaskTimeout() returns
    parseOK,        \* whether Parse(spec.DotDagSource) succeeds
    lIsNil,         \* whether the caller passed a nil logger l
    maxTaskDuration,\* spec.MaxTaskDuration (0: not set)
    ctxDone,        \* whether the caller has cancelled the ctx it passed to ExecuteRun
    \* ExecuteRun / executeRun
    pc,             \* position of the goroutine that called ExecuteRun
    i,              \* ExecuteRun's attempt counter
    retry,          \* ExecuteRun's retry
    retTrrs,        \* the TaskRunResults of the last attempt / returned
    retErr,         \* the error of the last attempt / returned
    taskRun,        \* the loop variable of the dispatch loop
    run,            \* the Run of the last attempt / returned: [Outputs, Errors]
    \* ExecuteAndInsertFinishedRun
    inserted,       \* the calls of ORM.InsertFinishedRun so far, <<[run, trrs]>>
    ormErr,         \* the error ORM.InsertFinishedRun returned
    outFinal,       \* the FinalResult ExecuteAndInsertFinishedRun returns
    outErr,         \* the error ExecuteAndInsertFinishedRun returns
    \* scheduler
    started,        \* scheduler.Run is running
    pending,        \* per task: predecessors that have not reported
    ready,          \* tasks ready to be emitted
    inbuf,          \* per task: the inputs collected so far, <<[result, index]>>
    results,        \* per task: the results committed for it (the collection is unordered)
    closed,         \* the runnable channel (taskCh) is closed
    emitted,        \* per task: number of times it was sent on taskCh
    \* workers, one slot per received descriptor
    wpc,            \* "none", "spawned", "running", "posting", "trap", "done"
    wrun,           \* the memoryTaskRun the worker works on
    wctx,           \* the context executeTaskRun hands to Task.Run
    wtimeout,       \* what Task.TaskTimeout() returned: [set, d]
    wargs,          \* the inputs handed to Task.Run
    wtrr,           \* the TaskRunResult the worker is about to post
    \* service lifecycle
    svc,            \* StartStopOnce: "unstarted", "started", "stopped"
    chStop,         \* "open" / "closed"
    chDone,         \* "open" / "closed"
    reaper,         \* runReaperLoop: "none", "loop", "returning", "destroyed", "exited"
    closePc,        \* Close: "idle", "waiting", "returned"
    sleeper,        \* runReaperWorker: "idle", "woken", "stopped"
    launches,       \* number of times go r.runReaperLoop() was executed
    stopCloses,     \* number of times close(r.chStop) was executed
    startCalls,     \* number of calls of Start
    closeCalls      \* number of calls of Close

runVars == <<pc, i, retry, retTrrs, retErr, taskRun, run>>
insertVars == <<inserted, ormErr, outFinal, outErr>>
inputVars == <<dag, parseOK, lIsNil, maxTaskDuration, ctxDone>>
schedVars == <<started, pending, ready, inbuf, results, closed, emitted>>
workerVars == <<wpc, wrun, wctx, wtimeout, wargs, wtrr>>
svcVars == <<svc, chStop, chDone, reaper, closePc, sleeper, launches, stopCloses,
            startCalls, closeCalls>>
vars == <<inputVars, runVars, insertVars, schedVars, workerVars, svcVars>>

\* -------------------------------------------------------------------- DAGs

Tasks(d) == 1..d.n

\* The sequences of length k over S without repetition.
SeqsNoRepeat(S, k) ==
    {s \in [1..k -> S] : \A a, b \in 1..k : a # b => s[a] # s[b]}

Range(s) == {s[k] : k \in 1..Len(s)}

\* The declared inputs a task t may have: any ordered choice of earlier tasks
\* (tasks are numbered in a topological order, so the graph is acyclic).
InputChoices(t) == UNION {SeqsNoRepeat(1..(t - 1), k) : k \in 0..(t - 1)}

RECURSIVE InputMaps(_)
\* The assignments of declared inputs to the tasks 1..n.
InputMaps(n) ==
    IF n = 0 THEN {<<>>}
    ELSE {Append(f, c) : f \in InputMaps(n - 1), c \in InputChoices(n)}

\* The pipelines of n tasks whose timeouts are drawn from the set C.
Pipelines(n, C) ==
    {[n |-> n, inputs |-> f, timeout |-> g] : f \in InputMaps(n), g \in [1..n -> C]}

NoTimeout == [set |-> FALSE, d |-> 0]

\* The runs explored: every pipeline of up to MaxTasks tasks without
\* timeouts, and every pipeline of up to MaxTimedTasks tasks with any
\* combination of task timeouts and MaxTaskDuration.
Runs ==
    {[dag |-> d, maxDur |-> 0] :
        d \in UNION {Pipelines(n, {NoTimeout}) : n \in 0..MaxTasks}}
    \cup
    {[dag |-> d, maxDur |-> m] :
        d \in UNION {Pipelines(n, TimeoutChoices) : n \in 1..MaxTimedTasks},
        m \in MaxTaskDurations}

Preds(d, t) == Range(d.inputs[t])
Succs(d, t) == {s \in Tasks(d) : t \in Preds(d, s)}

\* The index of the edge p -> s: p's position among s's declared inputs.
EdgeIndex(d, p, s) == (CHOOSE k \in 1..Len(d.inputs[s]) : d.inputs[s][k] = p) - 1

\* ----------------------------------------------------------------- results

\* Result{Value, Error}; the value 0 stands for nil, the value of a task that
\* succeeds is its identifier.
Result(v, e) == [Value |-> v, Error |-> e]

\* TaskRunResult{Task, Result, CreatedAt, FinishedAt}; CreatedAt is "start"
\* (the time the worker began) or "zero" (the field was never set).
TaskRunResult(t, r, c) == [Task |-> t, Result |-> r, CreatedAt |-> c]

\* The Result built from the pipeline input, given to tasks without predecessors.
SeedResult == Result(0, NoError)

\* What Task.Run may return for task t: a value or an error.
TaskResults(t) == {Result(t, NoError), Result(0, TaskError)}

NoTaskRun == [task |-> 0, inputs |-> <<>>]
NoCtx == [deadline |-> 0, stop |-> FALSE, caller |-> FALSE]
NoTrr == TaskRunResult(0, Result(0, NoError), "zero")

\* ---------------------------------------------------------------- contexts

\* utils.CombinedContext(chStop, d): done when chStop is closed or after d.
CombinedContext(d) == [deadline |-> d, stop |-> TRUE, caller |-> FALSE]

\* The context the caller passed to ExecuteRun (no deadline of its own).
CallerCtx == [deadline |-> 0, stop |-> FALSE, caller |-> TRUE]

\* A variant of TaskContext that looks at the spec's MaxTaskDuration before
\* the task's own timeout.
TaskContextSpecFirst(tt, maxDur) ==
    IF maxDur # 0 THEN CombinedContext(maxDur)
    ELSE IF tt.set THEN CombinedContext(tt.d)
    ELSE CallerCtx

\* A variant of TaskContext that derives the context of a timeout from the
\* caller's context as well (the stop signal and the duration added to ctx).
TaskContextFromCaller(tt, maxDur) ==
    IF tt.set THEN [deadline |-> tt.d, stop |-> TRUE, caller |-> TRUE]
    ELSE IF maxDur # 0 THEN [deadline |-> maxDur, stop |-> TRUE, caller |-> TRUE]
    ELSE CallerCtx

\* The context executeTaskRun hands to Task.Run.
TaskContext(tt, maxDur) ==
    IF tt.set THEN CombinedContext(tt.d)
    ELSE IF maxDur # 0 THEN CombinedContext(maxDur)
    ELSE CallerCtx

\* A context is cancelled by the stop signal when it is composed with it.
Cancelled(c) == c.stop /\ chStop = "closed"

\* A context is done, deadlines apart, when a signal it derives from is: the
\* stop signal, or the caller's context.
ContextDone(c) == Cancelled(c) \/ (c.caller /\ ctxDone)

\* ------------------------------------------------------------ inputsSorted

RECURSIVE InsertByIndex(_, _)
\* x inserted into the sequence s, which is ascending by index.
InsertByIndex(s, x) ==
    IF s = <<>> THEN <<x>>
    ELSE IF x.index < Head(s).index THEN <<x>> \o s
    ELSE <<Head(s)>> \o InsertByIndex(Tail(s), x)

RECURSIVE SortByIndex(_)
SortByIndex(s) ==
    IF s = <<>> THEN <<>>
    ELSE InsertByIndex(SortByIndex(Tail(s)), Head(s))

\* A variant of inputsSorted that leaves the inputs in their order of arrival.
inputsArrivalOrder(m) == [k \in 1..Len(m.inputs) |-> m.inputs[k].result]

\* memoryTaskRun.inputsSorted: the results of the inputs, ascending by index.
inputsSorted(m) ==
    LET sorted == SortByIndex(m.inputs)
    IN  [k \in 1..Len(sorted) |-> sorted[k].result]

\* ------------------------------------------------------------------ worker

\* A variant of WorkerTaskRun in which the closure captures the loop variable.
WorkerTaskRunLoopVar(param, loopVar) == loopVar

\* The memoryTaskRun the worker's closure works on: its own parameter, not
\* the loop variable of the dispatch loop (go func(taskRun){...}(taskRun)).
WorkerTaskRun(param, loopVar) == param

\* Variants of recovered: the deferred function posts whether or not the
\* worker panicked; the deferred function never recovers.
recoveredAlways(panicked) == TRUE
recoveredNever(panicked) == FALSE

\* The deferred function of the worker posts a result only when recover()
\* returns a panic value.
recovered(panicked) == panicked

\* A variant of PanicTrapResult that leaves the Result's Error nil.
PanicTrapResultNoError(m) == TaskRunResult(m.task, Result(0, NoError), "zero")

\* The TaskRunResult the panic trap posts.
PanicTrapResult(m) == TaskRunResult(m.task, Result(0, PanicError), "zero")

\* The retry signal executeRun returns.
executeRunRetry == FALSE

\* panickedRunResults: a TaskRunResult with ErrRunPanicked appended for each
\* task of p.Tasks.
panickedRunResults(d) ==
    [k \in 1..d.n |-> TaskRunResult(k, Result(0, ErrRunPanicked), "start")]

RECURSIVE Flatten(_, _)
\* The concatenation of the sequences f[1], ..., f[n].
Flatten(f, n) == IF n = 0 THEN <<>> ELSE Flatten(f, n - 1) \o f[n]

\* A variant of gatherResults that skips the first result of the collection.
gatherResultsSkipFirst(res) ==
    LET all == Flatten(res, dag.n) IN SubSeq(all, 2, Len(all))

\* The epilogue's loop over scheduler.results: every result of the
\* collection is appended to taskRunResults (the order is unspecified; the
\* model takes the order of the tasks).
gatherResults(res) == Flatten(res, dag.n)

\* ------------------------------------------------------------- FinalResult

\* A variant of FinalResult that draws from every task, terminal or not.
FinalResultAllTasks(d, trrs) ==
    [Outputs |-> [k \in 1..Len(trrs) |-> trrs[k].Result.Value],
     Errors |-> [k \in 1..Len(trrs) |-> trrs[k].Result.Error]]

\* TaskRunResults.FinalResult: the values and the errors of the results of
\* the terminal tasks (the tasks without successors), in the order of trrs.
FinalResult(d, trrs) ==
    LET IsTerminal(x) == Succs(d, x.Task) = {}
        term == SelectSeq(trrs, IsTerminal)
    IN  [Outputs |-> [k \in 1..Len(term) |-> term[k].Result.Value],
         Errors |-> [k \in 1..Len(term) |-> term[k].Result.Error]]

\* FinalResult.HasErrors: some element of Errors is not nil.
HasErrors(fr) == \E k \in 1..Len(fr.Errors) : fr.Errors[k] # NoError

\* FinalResult.OutputsDB: the outputs as one serializable value.
OutputsDB(fr) == [Val |-> fr.Outputs, Null |-> FALSE]

\* FinalResult.ErrorsDB: each error as a nullable string, null for nil.
ErrorsDB(fr) ==
    [k \in 1..Len(fr.Errors) |->
        IF fr.Errors[k] = NoError THEN [String |-> "", Valid |-> FALSE]
        ELSE [String |-> fr.Errors[k], Valid |-> TRUE]]

\* The Run as executeRun declares it: no outputs, no errors yet.
NoRun == [Outputs |-> [Val |-> <<>>, Null |-> FALSE], Errors |-> <<>>]

\* A variant of FinishedRun that takes the outputs and errors of every task.
FinishedRunAllTasks(d, trrs) ==
    [Outputs |-> OutputsDB(FinalResultAllTasks(d, trrs)),
     Errors |-> ErrorsDB(FinalResultAllTasks(d, trrs))]

\* The Run with the serialized outputs and errors of the final result of trrs.
FinishedRun(d, trrs) ==
    [Outputs |-> OutputsDB(FinalResult(d, trrs)), Errors |-> ErrorsDB(FinalResult(d, trrs))]

\* The FinalResult ExecuteAndInsertFinishedRun declares and has not assigned.
NoFinalResult == [Outputs |-> <<>>, Errors |-> <<>>]

\* errors.Wrapf(err, msg): nil for a nil err, otherwise err with its context.
Wrapf(err, msg) == IF err = NoError THEN NoError ELSE msg \o ": " \o err

\* The error ORM.InsertFinishedRun may return.
InsertError == "insert error"

\* ---------------------------------------------------------------- scheduler

RECURSIVE SumLen(_, _)
\* The number of elements of the sequences f[1], ..., f[n].
SumLen(f, n) == IF n = 0 THEN 0 ELSE Len(f[n]) + SumLen(f, n - 1)

\* The number of results the scheduler has received.
Reported == SumLen(results, dag.n)
AllReported == Reported = dag.n
Posted == {t \in Tasks(dag) : results[t] # <<>>}
NoResults == [t \in Tasks(dag) |-> <<>>]
Roots(d) == {t \in Tasks(d) : d.inputs[t] = <<>>}

\* The scheduler blocks on the result channel: nothing is ready to be
\* emitted and some task has not reported.
SchedulerReceiving == started /\ ~closed /\ ready = {} /\ ~AllReported

\* newScheduler and go scheduler.Run(): the pending counts are the
\* in-degrees, the tasks without predecessors are ready and carry the seed
\* input at index 0.
newScheduler ==
    /\ started' = TRUE /\ closed' = FALSE /\ results' = NoResults
    /\ pending' = [t \in Tasks(dag) |-> Len(dag.inputs[t])]
    /\ ready' = Roots(dag)
    /\ inbuf' = [t \in Tasks(dag) |->
                   IF t \in Roots(dag)
                   THEN <<[result |-> SeedResult, index |-> 0]>> ELSE <<>>]
    /\ emitted' = [t \in Tasks(dag) |-> 0]

\* The descriptor the scheduler emits for task t.
Descriptor(t) == [task |-> t, inputs |-> inbuf[t]]

\* The scheduler emits the ready task t: t leaves the ready set.
schedulerEmit(t) ==
    /\ started /\ ~closed /\ t \in ready
    /\ ready' = ready \ {t}
    /\ emitted' = [emitted EXCEPT ![t] = @ + 1]
    /\ UNCHANGED <<started, pending, inbuf, results, closed>>

\* A variant of schedulerCommit that treats an errored result as a failure:
\* the result is committed but the successors of its task are not released.
schedulerCommitErrorStops(trr) ==
    LET t == trr.Task
        succs == IF trr.Result.Error # NoError THEN {} ELSE Succs(dag, t)
    IN  /\ SchedulerReceiving
        /\ results' = [results EXCEPT ![t] = Append(@, trr)]
        /\ inbuf' = [u \in Tasks(dag) |->
                       IF u \in succs
                       THEN Append(inbuf[u], [result |-> trr.Result,
                                              index |-> EdgeIndex(dag, t, u)])
                       ELSE inbuf[u]]
        /\ pending' = [u \in Tasks(dag) |->
                         IF u \in succs THEN pending[u] - 1 ELSE pending[u]]
        /\ ready' = ready \cup {u \in succs : pending[u] - 1 = 0}
        /\ UNCHANGED <<started, closed, emitted>>

\* The scheduler receives trr: it commits the result and, for each successor
\* of the task, appends the input with its edge index and counts the
\* predecessor off; a successor whose count reaches zero becomes ready.
schedulerCommit(trr) ==
    LET t == trr.Task
        succs == Succs(dag, t)
    IN  /\ SchedulerReceiving
        /\ results' = [results EXCEPT ![t] = Append(@, trr)]
        /\ inbuf' = [u \in Tasks(dag) |->
                       IF u \in succs
                       THEN Append(inbuf[u], [result |-> trr.Result,
                                              index |-> EdgeIndex(dag, t, u)])
                       ELSE inbuf[u]]
        /\ pending' = [u \in Tasks(dag) |->
                         IF u \in succs THEN pending[u] - 1 ELSE pending[u]]
        /\ ready' = ready \cup {u \in succs : pending[u] - 1 = 0}
        /\ UNCHANGED <<started, closed, emitted>>

\* ---------------------------------------------------------------------- Init

Init ==
    /\ \E r \in Runs : dag = r.dag /\ maxTaskDuration = r.maxDur
    /\ parseOK \in BOOLEAN
    /\ lIsNil \in BOOLEAN
    /\ ctxDone = FALSE
    /\ pc = "idle" /\ i = 0 /\ retry = FALSE /\ retTrrs = <<>> /\ retErr = NoError
    /\ taskRun = NoTaskRun /\ run = NoRun
    /\ inserted = <<>> /\ ormErr = NoError /\ outFinal = NoFinalResult /\ outErr = NoError
    /\ started = FALSE /\ closed = FALSE /\ ready = {} /\ results = NoResults
    /\ pending = [t \in Tasks(dag) |-> 0]
    /\ inbuf = [t \in Tasks(dag) |-> <<>>]
    /\ emitted = [t \in Tasks(dag) |-> 0]
    /\ wpc = [t \in Tasks(dag) |-> "none"]
    /\ wrun = [t \in Tasks(dag) |-> NoTaskRun]
    /\ wctx = [t \in Tasks(dag) |-> NoCtx]
    /\ wtimeout = [t \in Tasks(dag) |-> NoTimeout]
    /\ wargs = [t \in Tasks(dag) |-> <<>>]
    /\ wtrr = [t \in Tasks(dag) |-> NoTrr]
    /\ svc = "unstarted" /\ chStop = "open" /\ chDone = "open"
    /\ reaper = "none" /\ closePc = "idle" /\ sleeper = "idle"
    /\ launches = 0 /\ stopCloses = 0 /\ startCalls = 0 /\ closeCalls = 0

\* ------------------------------------------------- ExecuteRun / executeRun

\* ExecuteRun is called: the retry loop begins with i = 0.
ExecuteRun ==
    /\ pc = "idle"
    /\ pc' = "attempt" /\ i' = 0
    /\ UNCHANGED <<inputVars, insertVars, retry, retTrrs, retErr, taskRun, run, schedVars,
                   workerVars, svcVars>>

\* A variant of executeRunPrologue that goes on after a failure of Parse.
executeRunPrologueNoParseCheck ==
    /\ pc = "attempt"
    /\ IF lIsNil
       THEN /\ pc' = "panicked"
            /\ UNCHANGED <<retry, retTrrs, retErr, run, schedVars>>
       ELSE /\ pc' = "dispatch" /\ run' = NoRun
            /\ newScheduler
            /\ UNCHANGED <<retry, retTrrs, retErr>>
    /\ UNCHANGED <<inputVars, insertVars, i, taskRun, workerVars, svcVars>>

\* executeRun up to the dispatch loop: the first log call (a nil logger
\* panics, and nothing recovers the panic), Parse, the initialisation of the
\* tasks, newScheduler and go scheduler.Run().
executeRunPrologue ==
    /\ pc = "attempt"
    /\ IF lIsNil
       THEN /\ pc' = "panicked"
            /\ UNCHANGED <<retry, retTrrs, retErr, run, schedVars>>
       ELSE IF ~parseOK
       THEN /\ pc' = "attemptDone" /\ run' = NoRun
            /\ retry' = executeRunRetry /\ retTrrs' = <<>> /\ retErr' = ParseError
            /\ UNCHANGED schedVars
       ELSE /\ pc' = "dispatch" /\ run' = NoRun
            /\ newScheduler
            /\ UNCHANGED <<retry, retTrrs, retErr>>
    /\ UNCHANGED <<inputVars, insertVars, i, taskRun, workerVars, svcVars>>

\* The scheduler sends the descriptor of a ready task on taskCh; the dispatch
\* loop receives it and spawns its worker.
Dispatch(t) ==
    /\ pc = "dispatch"
    /\ schedulerEmit(t)
    /\ taskRun' = Descriptor(t)
    /\ wrun' = [wrun EXCEPT ![t] = Descriptor(t)]
    /\ wpc' = [wpc EXCEPT ![t] = "spawned"]
    /\ UNCHANGED <<inputVars, insertVars, pc, i, retry, retTrrs, retErr, run, wctx, wtimeout,
                   wargs, wtrr, svcVars>>

\* The scheduler ends: every task has reported, it closes taskCh.
SchedulerClose ==
    /\ started /\ ~closed /\ ready = {} /\ AllReported
    /\ closed' = TRUE
    /\ UNCHANGED <<inputVars, insertVars, runVars, started, pending, ready, inbuf, results, emitted,
                   workerVars, svcVars>>

\* A variant of executeRunEpilogue whose dispatch loop ends as soon as no
\* descriptor is waiting on the channel, closed or not.
executeRunEpilogueEarly ==
    /\ pc = "dispatch" /\ started /\ ready = {}
    /\ pc' = "attemptDone"
    /\ retTrrs' = gatherResults(results) /\ retry' = executeRunRetry /\ retErr' = NoError
    /\ run' = FinishedRun(dag, gatherResults(results))
    /\ taskRun' = NoTaskRun
    /\ UNCHANGED <<inputVars, insertVars, i, schedVars, workerVars, svcVars>>

\* The dispatch loop ends on the closed channel; the epilogue gathers the
\* scheduler's results and executeRun returns.
executeRunEpilogue ==
    /\ pc = "dispatch" /\ closed
    /\ pc' = "attemptDone"
    /\ retTrrs' = gatherResults(results) /\ retry' = executeRunRetry /\ retErr' = NoError
    /\ run' = FinishedRun(dag, gatherResults(results))
    /\ taskRun' = NoTaskRun
    /\ UNCHANGED <<inputVars, insertVars, i, schedVars, workerVars, svcVars>>

\* A variant of ExecuteRunLoop that goes on to the next attempt whether or not
\* the attempt signalled retry.
ExecuteRunLoopNoBreak ==
    /\ pc = "attemptDone"
    /\ i' = i + 1
    /\ IF i + 1 < numPanicRetries
       THEN pc' = "attempt" /\ UNCHANGED <<retTrrs, retErr, run>>
       ELSE /\ pc' = "returned"
            /\ IF parseOK
               THEN /\ retTrrs' = panickedRunResults(dag) /\ retErr' = NoError
                    /\ run' = FinishedRun(dag, panickedRunResults(dag))
               ELSE retTrrs' = <<>> /\ retErr' = ParseError /\ run' = NoRun
    /\ UNCHANGED <<inputVars, insertVars, retry, taskRun, schedVars, workerVars, svcVars>>

\* ExecuteRun after an attempt: retry (sleep, next attempt, and the
\* panicked run after the last one) or break and return the attempt's values.
ExecuteRunLoop ==
    /\ pc = "attemptDone"
    /\ IF retry
       THEN /\ i' = i + 1
            /\ IF i + 1 < numPanicRetries
               THEN pc' = "attempt" /\ UNCHANGED <<retTrrs, retErr, run>>
               ELSE /\ pc' = "returned"
                    /\ IF parseOK
                       THEN /\ retTrrs' = panickedRunResults(dag) /\ retErr' = NoError
                            /\ run' = FinishedRun(dag, panickedRunResults(dag))
                       ELSE retTrrs' = <<>> /\ retErr' = ParseError /\ run' = NoRun
       ELSE pc' = "returned" /\ UNCHANGED <<i, retTrrs, retErr, run>>
    /\ UNCHANGED <<inputVars, insertVars, retry, taskRun, schedVars, workerVars, svcVars>>

\* ----------------------------------------------------------------- workers

\* The worker begins executeTaskRun: it asks the task for its timeout,
\* derives the context and calls Task.Run with the sorted inputs.
WorkerStart(s) ==
    /\ wpc[s] = "spawned"
    /\ LET m == WorkerTaskRun(wrun[s], taskRun)
           tt == dag.timeout[m.task]
       IN  /\ wrun' = [wrun EXCEPT ![s] = m]
           /\ wargs' = [wargs EXCEPT ![s] = inputsSorted(m)]
           /\ wtimeout' = [wtimeout EXCEPT ![s] = tt]
           /\ wctx' = [wctx EXCEPT ![s] = TaskContext(tt, maxTaskDuration)]
    /\ wpc' = [wpc EXCEPT ![s] = "running"]
    /\ UNCHANGED <<inputVars, insertVars, runVars, schedVars, wtrr, svcVars>>

\* Task.Run returns r; executeTaskRun returns the TaskRunResult (its deferred
\* cancel releases the context) and the worker goes on to post it.
TaskRunReturns(s, r) ==
    /\ wpc[s] = "running"
    /\ wtrr' = [wtrr EXCEPT ![s] = TaskRunResult(wrun[s].task, r, "start")]
    /\ wctx' = [wctx EXCEPT ![s] = NoCtx]
    /\ wtimeout' = [wtimeout EXCEPT ![s] = NoTimeout]
    /\ wpc' = [wpc EXCEPT ![s] = "posting"]
    /\ UNCHANGED <<inputVars, insertVars, runVars, schedVars, wrun, wargs, svcVars>>

\* The worker panics before it posts (in Task.Run or while recording the
\* metrics); its deferred function recovers and goes on to post the trap's result.
TaskRunPanics(s) ==
    /\ wpc[s] = "running"
    /\ wctx' = [wctx EXCEPT ![s] = NoCtx]
    /\ wtimeout' = [wtimeout EXCEPT ![s] = NoTimeout]
    /\ IF recovered(TRUE)
       THEN /\ wtrr' = [wtrr EXCEPT ![s] = PanicTrapResult(wrun[s])]
            /\ wpc' = [wpc EXCEPT ![s] = "trap"]
       ELSE /\ wpc' = [wpc EXCEPT ![s] = "crashed"]
            /\ UNCHANGED wtrr
    /\ UNCHANGED <<inputVars, insertVars, runVars, schedVars, wrun, wargs, svcVars>>

\* The worker sends its TaskRunResult on resultCh and the scheduler, blocked
\* on the channel, receives it.  The worker's function then returns and its
\* deferred function runs: it posts the trap's result only after a panic.
WorkerPost(s) ==
    /\ wpc[s] \in {"posting", "trap"}
    /\ schedulerCommit(wtrr[s])
    /\ IF wpc[s] = "posting" /\ recovered(FALSE)
       THEN /\ wtrr' = [wtrr EXCEPT ![s] = PanicTrapResult(wrun[s])]
            /\ wpc' = [wpc EXCEPT ![s] = "trap"]
       ELSE /\ wtrr' = [wtrr EXCEPT ![s] = NoTrr]
            /\ wpc' = [wpc EXCEPT ![s] = "done"]
    /\ UNCHANGED <<inputVars, insertVars, runVars, wrun, wctx, wtimeout, wargs, svcVars>>

\* A variant of logTaskRunToPrometheusPanics in which the panic is raised
\* outside the reach of the deferred function and ends the worker.
logTaskRunToPrometheusEscapes(s) ==
    /\ wpc[s] = "posting"
    /\ wpc' = [wpc EXCEPT ![s] = "crashed"]
    /\ UNCHANGED <<inputVars, insertVars, runVars, schedVars, wrun, wctx, wtimeout, wargs,
                   wtrr, svcVars>>

\* executeTaskRun has returned and the worker panics while recording the
\* metrics, before it posts: its deferred function recovers and goes on to
\* post the trap's result in place of the task's.
logTaskRunToPrometheusPanics(s) ==
    /\ wpc[s] = "posting"
    /\ IF recovered(TRUE)
       THEN /\ wtrr' = [wtrr EXCEPT ![s] = PanicTrapResult(wrun[s])]
            /\ wpc' = [wpc EXCEPT ![s] = "trap"]
       ELSE /\ wpc' = [wpc EXCEPT ![s] = "crashed"]
            /\ UNCHANGED wtrr
    /\ UNCHANGED <<inputVars, insertVars, runVars, schedVars, wrun, wctx, wtimeout, wargs,
                   svcVars>>

\* ---------------------------------------------- ExecuteAndInsertFinishedRun

\* A variant of ExecuteAndInsertFinishedRun that inserts the run before it
\* looks at the error of ExecuteRun.
ExecuteAndInsertFinishedRunInsertsFirst(ok) ==
    /\ pc = "returned"
    /\ pc' = "finished"
    /\ inserted' = Append(inserted, [run |-> run, trrs |-> retTrrs])
    /\ ormErr' = IF ok THEN NoError ELSE InsertError
    /\ IF retErr # NoError
       THEN /\ outErr' = Wrapf(retErr, "error executing run")
            /\ UNCHANGED outFinal
       ELSE /\ outFinal' = FinalResult(dag, retTrrs)
            /\ outErr' = Wrapf(ormErr', "error inserting finished results")
    /\ UNCHANGED <<inputVars, i, retry, retTrrs, retErr, taskRun, run, schedVars,
                   workerVars, svcVars>>

\* ExecuteAndInsertFinishedRun once its call of ExecuteRun has returned: an
\* error of ExecuteRun is wrapped and returned; otherwise the final result is
\* computed, ORM.InsertFinishedRun is called (it succeeds or fails: ok) and
\* its error, if any, is wrapped and returned.
ExecuteAndInsertFinishedRun(ok) ==
    /\ pc = "returned"
    /\ pc' = "finished"
    /\ IF retErr # NoError
       THEN /\ outErr' = Wrapf(retErr, "error executing run")
            /\ UNCHANGED <<inserted, ormErr, outFinal>>
       ELSE /\ outFinal' = FinalResult(dag, retTrrs)
            /\ inserted' = Append(inserted, [run |-> run, trrs |-> retTrrs])
            /\ ormErr' = IF ok THEN NoError ELSE InsertError
            /\ outErr' = Wrapf(ormErr', "error inserting finished results")
    /\ UNCHANGED <<inputVars, i, retry, retTrrs, retErr, taskRun, run, schedVars,
                   workerVars, svcVars>>

\* ------------------------------------------------------- service lifecycle

\* StartOnce / StopOnce run their function only from the state they leave:
\* StartOnce from "unstarted", StopOnce from "started".
StartOnceRuns(state) == state = "unstarted"
StopOnceRuns(state) == state = "started"

\* A variant of Start that launches the reaper loop on every call.
StartNoOnce ==
    /\ startCalls < MaxCalls
    /\ startCalls' = startCalls + 1
    /\ svc' = "started" /\ reaper' = "loop" /\ launches' = launches + 1
    /\ UNCHANGED <<inputVars, insertVars, runVars, schedVars, workerVars, chStop, chDone,
                   closePc, sleeper, stopCloses, closeCalls>>

\* Start: StartOnce launches the reaper loop on the first call only.
Start ==
    /\ startCalls < MaxCalls
    /\ startCalls' = startCalls + 1
    /\ IF StartOnceRuns(svc)
       THEN svc' = "started" /\ reaper' = "loop" /\ launches' = launches + 1
       ELSE UNCHANGED <<svc, reaper, launches>>
    /\ UNCHANGED <<inputVars, insertVars, runVars, schedVars, workerVars, chStop, chDone,
                   closePc, sleeper, stopCloses, closeCalls>>

\* Close: StopOnce closes chStop on the first call of a started runner, and
\* the caller then waits for chDone.
Close ==
    /\ closeCalls < MaxCalls
    /\ closeCalls' = closeCalls + 1
    /\ IF StopOnceRuns(svc)
       THEN /\ svc' = "stopped" /\ chStop' = "closed" /\ stopCloses' = stopCloses + 1
            /\ closePc' = "waiting"
       ELSE UNCHANGED <<svc, chStop, stopCloses, closePc>>
    /\ UNCHANGED <<inputVars, insertVars, runVars, schedVars, workerVars, chDone, reaper,
                   sleeper, launches, startCalls>>

\* runReaperLoop receives from the ticker and wakes the reaper worker up; a
\* wake-up of a worker that is already woken coalesces.
ReaperTick ==
    /\ reaper = "loop"
    /\ sleeper' = CASE sleeper = "idle" -> "woken"
                    [] sleeper = "working" -> "workingWoken"
                    [] OTHER -> sleeper
    /\ UNCHANGED <<inputVars, insertVars, runVars, schedVars, workerVars, svc, chStop,
                   chDone, reaper, closePc, launches, stopCloses, startCalls, closeCalls>>

\* The woken reaper worker calls runReaper.
runReaperBegins ==
    /\ sleeper = "woken"
    /\ sleeper' = "working"
    /\ UNCHANGED <<inputVars, insertVars, runVars, schedVars, workerVars, svc, chStop,
                   chDone, reaper, closePc, launches, stopCloses, startCalls, closeCalls>>

\* runReaper returns (DeleteRunsOlderThan; an error is logged only).
runReaper ==
    /\ sleeper \in {"working", "workingWoken"}
    /\ sleeper' = IF sleeper = "working" THEN "idle" ELSE "woken"
    /\ UNCHANGED <<inputVars, insertVars, runVars, schedVars, workerVars, svc, chStop,
                   chDone, reaper, closePc, launches, stopCloses, startCalls, closeCalls>>

\* runReaperLoop sees chStop closed and returns; its deferred functions run
\* next, last deferred first.
ReaperExit ==
    /\ reaper = "loop" /\ chStop = "closed"
    /\ reaper' = "returning"
    /\ UNCHANGED <<inputVars, insertVars, runVars, schedVars, workerVars, svc, chStop,
                   chDone, closePc, sleeper, launches, stopCloses, startCalls, closeCalls>>

\* The deferred destroy: runReaperWorker.Stop() halts the reaper worker, after
\* waiting for a runReaper in progress.
destroy ==
    /\ reaper = "returning" /\ sleeper \in {"idle", "woken"}
    /\ sleeper' = "stopped" /\ reaper' = "destroyed"
    /\ UNCHANGED <<inputVars, insertVars, runVars, schedVars, workerVars, svc, chStop,
                   chDone, closePc, launches, stopCloses, startCalls, closeCalls>>

\* A variant of closeChDone that runs before the deferred destroy.
closeChDoneFirst ==
    /\ reaper = "returning" /\ chDone = "open"
    /\ chDone' = "closed"
    /\ UNCHANGED <<inputVars, insertVars, runVars, schedVars, workerVars, svc, chStop,
                   reaper, closePc, sleeper, launches, stopCloses, startCalls, closeCalls>>

\* The deferred close(r.chDone), the last deferred function to run.
closeChDone ==
    /\ reaper = "destroyed"
    /\ chDone' = "closed" /\ reaper' = "exited"
    /\ UNCHANGED <<inputVars, insertVars, runVars, schedVars, workerVars, svc, chStop,
                   closePc, sleeper, launches, stopCloses, startCalls, closeCalls>>

\* Close receives from the closed chDone and returns.
CloseReturn ==
    /\ closePc = "waiting" /\ chDone = "closed"
    /\ closePc' = "returned"
    /\ UNCHANGED <<inputVars, insertVars, runVars, schedVars, workerVars, svc, chStop,
                   chDone, reaper, sleeper, launches, stopCloses, startCalls, closeCalls>>

\* --------------------------------------------------------------------- Next

\* A call of ExecuteRun and the goroutines of its run.
NextExecuteRun ==
    \/ ExecuteRun
    \/ executeRunPrologue
    \/ \E t \in Tasks(dag) : Dispatch(t)
    \/ SchedulerClose
    \/ executeRunEpilogue
    \/ ExecuteRunLoop
    \/ \E s \in Tasks(dag) : WorkerStart(s)
    \/ \E s \in Tasks(dag) : \E r \in TaskResults(wrun[s].task) : TaskRunReturns(s, r)
    \/ \E s \in Tasks(dag) : TaskRunPanics(s)
    \/ \E s \in Tasks(dag) : logTaskRunToPrometheusPanics(s)
    \/ \E s \in Tasks(dag) : WorkerPost(s)

\* A run: ExecuteRun called directly, or by ExecuteAndInsertFinishedRun, which
\* goes on once ExecuteRun has returned.
NextRun ==
    \/ NextExecuteRun
    \/ \E ok \in BOOLEAN : ExecuteAndInsertFinishedRun(ok)

\* The caller of ExecuteRun cancels the context it passed.
CallerCancels ==
    /\ ~ctxDone
    /\ ctxDone' = TRUE
    /\ UNCHANGED <<dag, parseOK, lIsNil, maxTaskDuration, insertVars, runVars, schedVars,
                   workerVars, svcVars>>

NextService ==
    \/ Start
    \/ Close
    \/ ReaperTick
    \/ runReaperBegins
    \/ runReaper
    \/ ReaperExit
    \/ destroy
    \/ closeChDone
    \/ CloseReturn

Next == NextRun \/ NextService \/ CallerCancels

\* The runner: a run and the service lifecycle, interleaved.
Spec == Init /\ [][Next]_vars

\* The run alone.  No step of the service lifecycle reads or writes a
\* variable of the run, and no step of the run reads or writes a variable of
\* the lifecycle, so the states of the run reachable under Spec are those
\* reachable under RunSpec.
RunSpec == Init /\ [][NextRun]_vars

\* The service lifecycle with a run in flight: the pipelines of at most
\* MaxServiceTasks tasks.
InitService == Init /\ dag.n <= MaxServiceTasks
ServiceSpec == InitService /\ [][Next]_vars

\* A direct call of ExecuteRun under fair scheduling of its goroutines (the
\* goroutine of ExecuteRun, the scheduler, the workers): a step of the run
\* that stays possible is eventually taken.  Task.Run always returns or
\* panics (TaskRunReturns, TaskRunPanics).
FairSpec == Init /\ [][NextExecuteRun]_vars /\ WF_vars(NextExecuteRun)

\* ------------------------------------------------------------------ claims

\* A worker slot whose worker has begun executeTaskRun.
Begun(s) == wpc[s] \notin {"none", "spawned"}

\* Every task has been emitted and has had a result posted.
AllEmittedAndPosted == \A t \in Tasks(dag) : emitted[t] >= 1 /\ t \in Posted

\* The sequence q holds exactly one TaskRunResult for each task of the DAG.
OneEach(q) ==
    /\ Len(q) = dag.n
    /\ \A t \in Tasks(dag) : Cardinality({k \in 1..Len(q) : q[k].Task = t}) = 1

\* C1: a task is emitted on the runnable channel, and its worker begins
\* executeTaskRun (and so calls Task.Run), only after every predecessor of the
\* task has posted its result to the scheduler.
C1_EmittedAfterPredecessors ==
    /\ \A t \in Tasks(dag) : emitted[t] > 0 => Preds(dag, t) \subseteq Posted
    /\ \A s \in Tasks(dag) : Begun(s) => Preds(dag, wrun[s].task) \subseteq Posted

\* A task with two predecessors is running.
C1_Witness ==
    \E s \in Tasks(dag) : wpc[s] = "running" /\ Len(dag.inputs[s]) = 2 /\ emitted[s] = 1

\* C2: within one run every task is emitted on the runnable channel at most
\* once, and no two workers work on the same task.
C2_EmittedAtMostOnce ==
    /\ \A t \in Tasks(dag) : emitted[t] <= 1
    /\ \A s1, s2 \in Tasks(dag) :
          s1 # s2 /\ Begun(s1) /\ Begun(s2) => wrun[s1].task # wrun[s2].task

\* Three tasks have all been emitted, two of them in the same batch, and the
\* channel is closed.
C2_Witness ==
    /\ dag.n = 3 /\ Cardinality(Roots(dag)) >= 2 /\ closed
    /\ \A t \in Tasks(dag) : emitted[t] = 1 /\ wpc[t] = "done"

\* C3: when ExecuteRun returns without a parse error, the returned
\* TaskRunResults hold exactly one TaskRunResult per task of the DAG; so do
\* the TaskRunResults panickedRunResults synthesizes for the DAG.
C3_OneResultPerTask ==
    /\ pc = "returned" /\ retErr = NoError => OneEach(retTrrs)
    /\ parseOK => OneEach(panickedRunResults(dag))

\* ExecuteRun has returned the results of a run of three tasks.
C3_Witness == pc = "returned" /\ retErr = NoError /\ dag.n = 3 /\ Len(retTrrs) = 3

\* C4: the inputs handed to Task.Run are ordered ascending by edge index,
\* whatever the order in which the predecessors posted: input k is the result
\* of the predecessor declared at position k (a task without predecessors
\* gets the seed input).
C4_InputsByEdgeIndex ==
    \A s \in Tasks(dag) :
        Begun(s) =>
            LET t == wrun[s].task
            IN  IF dag.inputs[t] = <<>>
                THEN wargs[s] = <<SeedResult>>
                ELSE /\ Len(wargs[s]) = Len(dag.inputs[t])
                     /\ \A k \in 1..Len(dag.inputs[t]) :
                            /\ results[dag.inputs[t][k]] # <<>>
                            /\ wargs[s][k] = results[dag.inputs[t][k]][1].Result

\* A task with two predecessors is running, the predecessor of edge index 1
\* posted first, and the two results differ.
C4_Witness ==
    \E s \in Tasks(dag) :
        /\ wpc[s] = "running" /\ Len(dag.inputs[s]) = 2
        /\ wrun[s].inputs[1].index = 1 /\ wrun[s].inputs[2].index = 0
        /\ wargs[s][1] # wargs[s][2]

\* C5 as stated (for a DAG of at least one task): in every state of a run
\* the runnable channel is closed if and only if every task has been emitted
\* and has had a result posted.
C5_ClosedIffAllDone == started /\ dag.n > 0 => (closed <=> AllEmittedAndPosted)

\* C5, amended: the runnable channel is closed only if every task has been
\* emitted and has had a result posted, and the dispatch loop has ended (the
\* epilogue has read the results) only if the channel is closed; when every
\* task has been emitted and posted and the channel is still open, closing it
\* is the scheduler's next step.
C5_ClosedOnlyAfterAllDone ==
    /\ closed => AllEmittedAndPosted
    /\ pc \in {"attemptDone", "returned"} /\ retErr = NoError =>
          closed /\ AllEmittedAndPosted
    /\ started /\ ~closed /\ AllEmittedAndPosted => ENABLED SchedulerClose

\* The channel of a run of at least two tasks is closed, the dispatch loop
\* has not ended yet.
C5_Witness == closed /\ pc = "dispatch" /\ dag.n >= 2

\* C6: under fair scheduling a run that has started its scheduler terminates:
\* the channel is closed, every worker has posted and ended, and ExecuteRun
\* returns.
C6_RunTerminates ==
    (pc = "dispatch") ~>
        (pc = "returned" /\ closed /\ \A t \in Tasks(dag) : wpc[t] = "done")

\* ExecuteRun has returned from a run of three tasks, one of which panicked.
C6_Witness ==
    /\ pc = "returned" /\ closed /\ dag.n = 3
    /\ \A t \in Tasks(dag) : wpc[t] = "done"
    /\ \E t \in Tasks(dag) : results[t][1].Result.Error = PanicError

\* C7: the context of a task invocation takes its deadline from the task's
\* own timeout if the task declares one, otherwise from the spec's
\* MaxTaskDuration if it is non-zero, otherwise it is the caller's context.
C7_TimeoutPrecedence ==
    \A s \in Tasks(dag) :
        wpc[s] = "running" =>
            LET tt == dag.timeout[wrun[s].task]
            IN  IF tt.set THEN wctx[s].deadline = tt.d /\ ~wctx[s].caller
                ELSE IF maxTaskDuration # 0
                THEN wctx[s].deadline = maxTaskDuration /\ ~wctx[s].caller
                ELSE wctx[s] = CallerCtx

\* A task whose own timeout is longer than the spec's MaxTaskDuration is
\* running under its own timeout.
C7_Witness ==
    \E s \in Tasks(dag) :
        /\ wpc[s] = "running" /\ dag.timeout[s].set
        /\ maxTaskDuration # 0 /\ dag.timeout[s].d > maxTaskDuration
        /\ wctx[s].deadline = dag.timeout[s].d

\* C8 as stated: once chStop is closed, the context of every task in flight
\* is cancelled, whichever timeout source was chosen.
C8_StopCancelsInFlight ==
    \A s \in Tasks(dag) : wpc[s] = "running" /\ chStop = "closed" => Cancelled(wctx[s])

\* C9: a panic of a task's worker does not escape the worker; the result the
\* trap posts for the task carries a panicError; and the run ends as a normal
\* run in the first attempt, with one result per task, every worker having
\* run and posted, and no result marked ErrRunPanicked.
C9_TaskPanicIsolated ==
    /\ \A s \in Tasks(dag) : wpc[s] # "crashed"
    /\ \A s \in Tasks(dag) :
          wpc[s] = "trap" =>
              wtrr[s].Task = wrun[s].task /\ wtrr[s].Result.Error = PanicError
    /\ pc = "returned" /\ retErr = NoError =>
          /\ i = 0 /\ ~retry /\ OneEach(retTrrs)
          /\ \A t \in Tasks(dag) : wpc[t] = "done"
          /\ \A k \in 1..Len(retTrrs) :
                retTrrs[k].Result.Error \in {NoError, TaskError, PanicError}

\* ExecuteRun has returned from a run in which task 1 panicked, its sibling
\* task 2 succeeded and their common successor task 3 ran.
C9_Witness ==
    /\ pc = "returned" /\ dag.n = 3 /\ Preds(dag, 3) = {1, 2}
    /\ results[1] # <<>> /\ results[1][1].Result.Error = PanicError
    /\ results[2] # <<>> /\ results[2][1].Result.Error = NoError
    /\ results[3] # <<>> /\ wpc[3] = "done"

\* C10 as stated: a panic raised in executeRun outside the workers never
\* propagates to the caller of ExecuteRun.
C10_RunPanicTrapped == pc # "panicked"

\* ExecuteRun has ended: it returned, or a panic left it.
Ended == pc \in {"panicked", "returned", "finished"}

\* C11 as stated: a run that panics at run level in every attempt ends with
\* ExecuteRun having made numPanicRetries attempts and returning, without
\* error, the synthesized panicked run: one TaskRunResult with ErrRunPanicked
\* per task, and the Run's outputs and errors computed from them.
C11_PanickedRunAfterRetries ==
    lIsNil /\ parseOK /\ Ended =>
        /\ pc # "panicked" /\ i = numPanicRetries /\ retErr = NoError
        /\ retTrrs = panickedRunResults(dag)
        /\ run = FinishedRun(dag, panickedRunResults(dag))

\* C12: when Parse fails, no scheduler is started, no descriptor is emitted,
\* no worker is spawned, no Task.Run is invoked and no result is produced; the
\* one attempt returns the parse error as it is, with no TaskRunResults, and
\* ExecuteRun returns the same without a further attempt.
C12_ParseErrorReturned ==
    ~parseOK =>
        /\ ~started
        /\ \A t \in Tasks(dag) : wpc[t] = "none" /\ emitted[t] = 0 /\ results[t] = <<>>
        /\ pc \in {"attemptDone", "returned", "finished"} =>
              retErr = ParseError /\ retTrrs = <<>> /\ run = NoRun /\ i = 0 /\ ~retry

\* ExecuteRun has returned the parse error of a spec of three tasks.
C12_Witness == ~parseOK /\ pc = "returned" /\ retErr = ParseError /\ dag.n = 3

\* The terminal tasks of the DAG.
TerminalTasks == {t \in Tasks(dag) : Succs(dag, t) = {}}

\* The one-to-one assignments of the positions 1..n to the tasks of T.
Alignments(n, T) == {f \in [1..n -> T] : \A a, b \in 1..n : a # b => f[a] # f[b]}

\* The final result fr is made of the results of the terminal tasks: one
\* position per terminal task, the output and the error of a position coming
\* from the same task.
AlignedWithTerminals(fr) ==
    /\ Len(fr.Outputs) = Cardinality(TerminalTasks)
    /\ Len(fr.Errors) = Cardinality(TerminalTasks)
    /\ \E f \in Alignments(Len(fr.Outputs), TerminalTasks) :
          \A k \in 1..Len(fr.Outputs) :
              /\ results[f[k]] # <<>>
              /\ results[f[k]][1].Result = Result(fr.Outputs[k], fr.Errors[k])

\* C13: when a run has completed, the outputs and the errors of its final
\* result have the same length, the number of terminal tasks; position k of
\* both comes from the same terminal task; tasks with successors contribute
\* nothing; HasErrors() is true exactly when the result of some terminal task
\* carries an error; and the Run stores these outputs and errors, serialized.
C13_FinalResultAligned ==
    pc \in {"returned", "finished"} /\ retErr = NoError =>
        LET fr == FinalResult(dag, retTrrs)
        IN  /\ AlignedWithTerminals(fr)
            /\ HasErrors(fr) <=>
                  \E t \in TerminalTasks : results[t][1].Result.Error # NoError
            /\ run.Outputs = OutputsDB(fr)
            /\ Len(run.Outputs.Val) = Cardinality(TerminalTasks)
            /\ Len(run.Errors) = Cardinality(TerminalTasks)
            /\ \A k \in 1..Len(run.Errors) :
                  /\ run.Errors[k].Valid <=> fr.Errors[k] # NoError
                  /\ run.Errors[k].Valid => run.Errors[k].String = fr.Errors[k]

\* A run of three tasks has completed: task 1 feeds the terminal tasks 2 and
\* 3; task 1 and task 3 returned a value and task 2 an error.
C13_Witness ==
    /\ pc = "returned" /\ retErr = NoError /\ dag.n = 3
    /\ TerminalTasks = {2, 3}
    /\ results[1][1].Result.Error = NoError
    /\ results[2][1].Result.Error = TaskError
    /\ results[3][1].Result.Error = NoError
    /\ HasErrors(FinalResult(dag, retTrrs))

\* The result the scheduler holds for task p carries an error.
Errored(p) == results[p] # <<>> /\ results[p][1].Result.Error # NoError

\* C14: an errored result is no scheduling failure.  A task all of whose
\* predecessors have posted is released (ready, or emitted) whether or not a
\* predecessor's result carries an error; the worker of a successor receives
\* the errored Result as the input at the edge's index; and a run returns
\* without error, every task having run and posted, whatever the errors the
\* results carry.
C14_ErrorIsNoSchedulingFailure ==
    /\ \A t \in Tasks(dag) :
          started /\ Preds(dag, t) \subseteq Posted => t \in ready \/ emitted[t] = 1
    /\ \A s \in Tasks(dag) :
          Begun(s) =>
              \A p \in Preds(dag, wrun[s].task) :
                  Errored(p) =>
                      wargs[s][EdgeIndex(dag, p, wrun[s].task) + 1] = results[p][1].Result
    /\ pc \in {"attemptDone", "returned", "finished"} /\ parseOK =>
          /\ retErr = NoError /\ i = 0
          /\ \A t \in Tasks(dag) : wpc[t] = "done" /\ t \in Posted

\* A run has returned in which task 2, declared as the input of index 1 of
\* task 3, returned an error, task 1 (index 0) a value, and task 3 ran with
\* both.
C14_Witness ==
    /\ pc = "returned" /\ retErr = NoError /\ dag.n = 3 /\ dag.inputs[3] = <<1, 2>>
    /\ results[2][1].Result.Error = TaskError
    /\ wargs[3] = <<Result(1, NoError), Result(0, TaskError)>>
    /\ wpc[3] = "done"

\* The lifecycle variables a call of Start or Close may change, the counts of
\* calls apart.
svcState == <<svc, chStop, chDone, reaper, closePc, sleeper, launches, stopCloses>>

\* C15: over any sequence of calls of Start and Close the reaper loop is
\* launched at most once (by the call that takes the runner from unstarted to
\* started), chStop is closed at most once (by the call that takes it from
\* started to stopped), the state never moves otherwise, and a call of Start
\* on a runner that is not unstarted, or of Close on a runner that is not
\* started, changes nothing.
C15_StartCloseIdempotent ==
    /\ [](/\ launches = (IF svc = "unstarted" THEN 0 ELSE 1)
          /\ stopCloses = (IF svc = "stopped" THEN 1 ELSE 0)
          /\ (chStop = "closed" <=> svc = "stopped")
          /\ (reaper = "none" <=> svc = "unstarted")
          /\ (startCalls >= 1 => svc # "unstarted"))
    /\ [][/\ svc' # svc =>
                \/ svc = "unstarted" /\ svc' = "started" /\ startCalls' = startCalls + 1
                \/ svc = "started" /\ svc' = "stopped" /\ closeCalls' = closeCalls + 1
          /\ startCalls' # startCalls /\ svc # "unstarted" => UNCHANGED svcState
          /\ closeCalls' # closeCalls /\ svc # "started" => UNCHANGED svcState]_vars

\* Start and Close have each been called twice; the runner was started once
\* and stopped once, and the Close that stopped it has returned.
C15_Witness ==
    /\ startCalls = 2 /\ closeCalls = 2 /\ launches = 1 /\ stopCloses = 1
    /\ svc = "stopped" /\ closePc = "returned"

\* C16: the order of a stop.  The reaper loop returns only after chStop is
\* closed; the reaper worker is halted only by the loop's deferred destroy;
\* chDone is closed only after the loop has returned and the worker is
\* halted; and Close returns only after chDone is closed, so never while the
\* loop runs or the worker is not halted.
C16_StopOrder ==
    /\ closePc # "idle" => chStop = "closed"
    /\ reaper \in {"returning", "destroyed", "exited"} => chStop = "closed"
    /\ sleeper = "stopped" => reaper \in {"destroyed", "exited"}
    /\ chDone = "closed" => reaper = "exited" /\ sleeper = "stopped"
    /\ closePc = "returned" => chDone = "closed" /\ reaper = "exited" /\ sleeper = "stopped"

\* Close has returned after the whole sequence of a stop, with a run in flight.
C16_Witness ==
    /\ closePc = "returned" /\ chStop = "closed" /\ reaper = "exited"
    /\ sleeper = "stopped" /\ chDone = "closed" /\ pc = "dispatch"

\* C17 as stated: every TaskRunResult posted to the scheduler has CreatedAt
\* set to the time its worker began.
C17_CreatedAtSet ==
    \A t \in Tasks(dag) : \A k \in 1..Len(results[t]) : results[t][k].CreatedAt = "start"

\* C18: ORM.InsertFinishedRun is called at most once, only after ExecuteRun
\* has returned without error and with the run and the results it returned;
\* ExecuteAndInsertFinishedRun calls it exactly once when ExecuteRun succeeds
\* and never when it fails; and an error of ExecuteRun or of the insertion is
\* returned wrapped, so the returned error is nil only if both succeeded.
C18_InsertOnlyAfterSuccess ==
    /\ Len(inserted) <= 1
    /\ inserted # <<>> =>
          /\ pc = "finished" /\ retErr = NoError
          /\ inserted[1] = [run |-> run, trrs |-> retTrrs]
    /\ pc = "finished" =>
          /\ retErr = NoError <=> Len(inserted) = 1
          /\ retErr # NoError =>
                outErr = "error executing run: " \o retErr /\ outFinal = NoFinalResult
          /\ retErr = NoError /\ ormErr # NoError =>
                outErr = "error inserting finished results: " \o ormErr
          /\ outErr = NoError <=> (retErr = NoError /\ ormErr = NoError)
          /\ retErr = NoError => outFinal = FinalResult(dag, retTrrs)

\* ExecuteAndInsertFinishedRun has inserted the completed run of three tasks
\* and returned the wrapped error of the insertion.
C18_Witness ==
    /\ pc = "finished" /\ dag.n = 3 /\ Len(inserted) = 1 /\ Len(inserted[1].trrs) = 3
    /\ ormErr = InsertError /\ outErr # NoError

\* C19: every worker posts exactly one TaskRunResult, whether Task.Run
\* returns or the worker panics before it posts: no worker ends without
\* posting, the scheduler holds no result for the task of a worker that has
\* not posted yet, exactly one for the task of a worker that has ended, and
\* when the channel is closed every worker has ended.
C19_OnePostPerWorker ==
    /\ \A s \in Tasks(dag) : wpc[s] # "crashed"
    /\ \A t \in Tasks(dag) : Len(results[t]) <= 1
    /\ \A s \in Tasks(dag) :
          /\ wpc[s] \in {"spawned", "running", "posting", "trap"} =>
                results[wrun[s].task] = <<>>
          /\ wpc[s] = "done" => Len(results[wrun[s].task]) = 1
    /\ closed => \A s \in Tasks(dag) : wpc[s] = "done"

\* Every worker of a run of three tasks has posted once and ended; one of
\* them panicked and posted the trap's result, another posted its task's.
C19_Witness ==
    /\ dag.n = 3 /\ closed
    /\ \A s \in Tasks(dag) : wpc[s] = "done" /\ Len(results[s]) = 1
    /\ \E s \in Tasks(dag) : results[s][1] = PanicTrapResult(wrun[s])
    /\ \E s \in Tasks(dag) : results[s][1].CreatedAt = "start"

\* C20: ExecuteRun returns after the first attempt that does not signal
\* retry, with the Run, the TaskRunResults and the error of that attempt and
\* without a further attempt; no attempt of the code signals retry, so it
\* returns after the first (i = 0), and what it returns is never the
\* synthesized panicked run, which takes numPanicRetries retries.
C20_LoopStopsAtFirstNonRetry ==
    /\ i < numPanicRetries
    /\ pc = "attemptDone" /\ ~retry => i = 0
    /\ pc \in {"returned", "finished"} =>
          /\ i = 0 /\ ~retry
          /\ \A k \in 1..Len(retTrrs) : retTrrs[k].Result.Error # ErrRunPanicked
          /\ IF parseOK
             THEN /\ retErr = NoError /\ retTrrs = gatherResults(results)
                  /\ run = FinishedRun(dag, retTrrs)
             ELSE retErr = ParseError /\ retTrrs = <<>> /\ run = NoRun

\* ExecuteRun has returned the run of the first attempt, a run of two tasks
\* one of which returned an error.
C20_Witness ==
    /\ pc = "returned" /\ i = 0 /\ ~retry /\ dag.n = 2 /\ Len(retTrrs) = 2
    /\ \E k \in 1..2 : retTrrs[k].Result.Error = TaskError

\* The worker s runs a task for which a timeout source is set: the task's
\* own timeout or the spec's MaxTaskDuration.
TimeoutSourceSet(s) == dag.timeout[wrun[s].task].set \/ maxTaskDuration # 0

\* C21: when the task declares a timeout or the spec a non-zero
\* MaxTaskDuration, the context handed to Task.Run derives from the stop
\* signal and the chosen duration only, so it is done (deadline apart)
\* exactly when chStop is closed, whether or not the caller has cancelled its
\* context; the caller's context is what Task.Run gets exactly when neither
\* timeout source is set, and then it is done exactly when the caller
\* cancels.
C21_CallerCtxOnlyWithoutTimeout ==
    \A s \in Tasks(dag) :
        wpc[s] = "running" =>
            /\ wctx[s].caller <=> ~TimeoutSourceSet(s)
            /\ TimeoutSourceSet(s) =>
                  /\ wctx[s].stop /\ wctx[s].deadline # 0
                  /\ ContextDone(wctx[s]) <=> chStop = "closed"
            /\ ~TimeoutSourceSet(s) =>
                  /\ wctx[s] = CallerCtx
                  /\ ContextDone(wctx[s]) <=> ctxDone

\* The caller has cancelled its context, the runner is not stopped, and a
\* task that takes its timeout from the spec's MaxTaskDuration is running
\* with a context that is not done.
C21_Witness ==
    \E s \in Tasks(dag) :
        /\ wpc[s] = "running" /\ ctxDone /\ chStop = "open"
        /\ ~dag.timeout[wrun[s].task].set /\ maxTaskDuration # 0
        /\ ~ContextDone(wctx[s])

====
